---- MODULE Spec2Model ----
(***************************************************************************)
(* A state-machine model of the integreat-cms data layer: the media        *)
(* library (MediaFile, its upload paths, regions and directories), the     *)
(* Site model, the page hierarchy with its translations, the language      *)
(* tree and data migration 0005.                                           *)
(*                                                                         *)
(* File system paths are modelled as sequences of one-character strings,   *)
(* so that formatting, splitting and concatenation are computed the way    *)
(* the Python code computes them.                                          *)
(***************************************************************************)
EXTENDS Integers, Sequences, FiniteSets, TLC

VARIABLES
    \* ---- media library ----
    regions,      \* ids of the Region rows that exist
    nextRegion,   \* next auto-increment Region id
    directories,  \* Directory rows: id -> [region]
    nextDir,      \* next auto-increment Directory id
    files,        \* MediaFile rows: id -> [file, thumbnail, type, region, parent_directory, uploaded_date]
    nextFile,     \* next auto-increment MediaFile id
    storage,      \* names of the physical files in the media storage
    now,          \* the wall clock: [year, month]
    ticks,        \* how often the clock advanced
    uploadLog,    \* history: id -> the call of upload_path that computed the file's path
    firstFile,    \* history: id -> the file name as first stored non-empty
    firstThumb,   \* history: id -> the thumbnail name as first stored non-empty
    mediaResult,  \* the last media operation and its outcome
    \* ---- sites ----
    sites,        \* Site rows: id -> [name, status]
    nextSite,     \* next auto-increment Site id
    siteResult,   \* the last attempt to store a Site and its outcome
    \* ---- auth groups and migration 0005 ----
    groups,       \* Group rows: name -> set of permission codenames
    applied,      \* whether migration 0005 is recorded as applied
    beforeForward,\* history: groups as they were when 0005 was last applied
    migResult,    \* the last two operations on the groups, latest last
    \* ---- pages ----
    pages,        \* Page rows: id -> [region, parent, explicitly_archived]
    nextPage,     \* next auto-increment Page id
    roots,        \* region -> the region's root pages in sibling order
    children,     \* page id -> the page's children in sibling order
    translations, \* PageTranslation rows: id -> [page, language]
    nextTranslation,
    savedLangs,   \* history: page id -> the languages a form was saved in
    pageResult,   \* the last page operation and its outcome
    \* ---- language tree ----
    langNodes,    \* LanguageTreeNode rows: id -> [language, parent, region, active]
    nextNode,     \* next auto-increment LanguageTreeNode id
    langResult,   \* the last submission of a LanguageTreeNodeForm
    \* ---- media API ----
    serialized    \* the last call of MediaFile.serialize() and its outcome

mediaVars == <<regions, nextRegion, directories, nextDir, files, nextFile,
               storage, now, ticks, uploadLog, firstFile, firstThumb,
               mediaResult>>

siteVars == <<sites, nextSite, siteResult>>
migVars == <<groups, applied, beforeForward, migResult>>

pageVars == <<pages, nextPage, roots, children, translations, nextTranslation,
              savedLangs, pageResult>>
langVars == <<langNodes, nextNode, langResult>>

serializeVars == <<serialized>>

vars == <<mediaVars, siteVars, migVars, pageVars, langVars, serializeVars>>

\* What the operations of one part of the system leave alone
notMedia == <<siteVars, migVars, pageVars, langVars, serializeVars>>
notSites == <<mediaVars, migVars, pageVars, langVars, serializeVars>>
notMigration == <<mediaVars, siteVars, pageVars, langVars, serializeVars>>
notPages == <<mediaVars, siteVars, migVars, langVars, serializeVars>>
notLanguages == <<mediaVars, siteVars, migVars, pageVars, serializeVars>>
notSerialize == <<mediaVars, siteVars, migVars, pageVars, langVars>>

\* ------------------------------------------------------------------ bounds
\* of the upload path specification
MaxRegions == 1
MaxFiles == 2
MaxTicks == 1
\* of the foreign key specification
MaxRefRegions == 2
MaxRefDirs == 1
MaxRefFiles == 3

\* None / NULL of a nullable foreign key or of an unsaved instance's id.
\* Auto-increment ids start at 1.
NULL == 0

\* ------------------------------------------------------------- characters
S_sites == <<"s", "i", "t", "e", "s", "/">>
S_slash == <<"/">>
S_thumbnail == <<"_", "t", "h", "u", "m", "b", "n", "a", "i", "l">>
S_empty == <<>>

DigitChars == <<"0", "1", "2", "3", "4", "5", "6", "7", "8", "9">>

RECURSIVE Str(_)
\* str(n) of a natural number, as f"{n}" formats it
Str(n) == IF n < 10 THEN <<DigitChars[n + 1]>>
          ELSE Str(n \div 10) \o <<DigitChars[(n % 10) + 1]>>

RECURSIVE ZeroPad(_, _)
ZeroPad(s, w) == IF Len(s) >= w THEN s ELSE ZeroPad(<<"0">> \o s, w)

\* time.strftime('%Y/%m'): four-digit year, zero-padded two-digit month
strftime_Ym(t) == ZeroPad(Str(t.year), 4) \o S_slash \o ZeroPad(Str(t.month), 2)

\* s.rfind(c): the last index (1-based) of character c in s, 0 when absent
rfind(s, c) ==
    LET idx == {i \in 1..Len(s) : s[i] = c}
    IN  IF idx = {} THEN 0 ELSE CHOOSE i \in idx : \A j \in idx : j <= i

\* os.path.splitext (genericpath._splitext): the extension starts at the last
\* dot of the last path component, leading dots of that component not counted
splitext(p) ==
    LET sepIndex == rfind(p, "/")
        dotIndex == rfind(p, ".")
    IN  IF dotIndex > sepIndex
           /\ \E k \in (sepIndex + 1)..(dotIndex - 1) : p[k] # "."
        THEN <<SubSeq(p, 1, dotIndex - 1), SubSeq(p, dotIndex, Len(p))>>
        ELSE <<p, S_empty>>


\* ------------------------------------------------------------ media inputs
\* File names an upload can carry (the base name of the uploaded file)
N_A_jpg == <<"A", ".", "j", "p", "g">>
N_A_thumbnail_jpg == <<"A">> \o S_thumbnail \o <<".", "j", "p", "g">>
N_dotfile == <<".", "x">>
N_B == <<"B">>
FileNames == {N_A_jpg, N_A_thumbnail_jpg, N_dotfile}

\* Values of MediaFile.type
T_image == <<"i", "m", "a", "g", "e", "/", "j", "p", "e", "g">>
T_pdf == <<"a", "p", "p", "l", "i", "c", "a", "t", "i", "o", "n", "/", "p", "d", "f">>
Types == {T_image, T_pdf}

\* The random strings the storage may append to a name that is taken
Suffixes == {<<"Q">>}

StartTime == [year |-> 2021, month |-> 12]

\* ------------------------------------------------------------ upload paths
\* The in-memory MediaFile handed to an upload_to callback
Instance(id, region, file) == [id |-> id, region |-> region, file |-> file]

\* upload_path with the month put before the year
upload_path_month_first(instance, filename) ==
    IF instance.id # NULL /\ files[instance.id].file # S_empty
    THEN files[instance.id].file
    ELSE LET region_directory ==
                 IF instance.region # NULL
                 THEN S_sites \o Str(instance.region) \o S_slash
                 ELSE S_empty
         IN  region_directory \o ZeroPad(Str(now.month), 2) \o S_slash
                 \o ZeroPad(Str(now.year), 4) \o S_slash \o filename

\* upload_path without the check of the stored record
upload_path_recomputed(instance, filename) ==
    LET region_directory ==
            IF instance.region # NULL
            THEN S_sites \o Str(instance.region) \o S_slash
            ELSE S_empty
    IN  region_directory \o strftime_Ym(now) \o S_slash \o filename

\* upload_path with the region subdirectory left out
upload_path_no_region(instance, filename) ==
    IF instance.id # NULL /\ files[instance.id].file # S_empty
    THEN files[instance.id].file
    ELSE strftime_Ym(now) \o S_slash \o filename

upload_path(instance, filename) ==
    IF instance.id # NULL /\ files[instance.id].file # S_empty
    THEN files[instance.id].file
    ELSE LET region_directory ==
                 IF instance.region # NULL
                 THEN S_sites \o Str(instance.region) \o S_slash
                 ELSE S_empty
         IN  region_directory \o strftime_Ym(now) \o S_slash \o filename

\* upload_path_thumbnail deriving the name from its filename argument
upload_path_thumbnail_from_arg(instance, filename) ==
    IF instance.id # NULL /\ files[instance.id].thumbnail # S_empty
    THEN files[instance.id].thumbnail
    ELSE LET se == splitext(filename)
         IN  se[1] \o S_thumbnail \o se[2]

upload_path_thumbnail(instance, filename) ==
    IF instance.id # NULL /\ files[instance.id].thumbnail # S_empty
    THEN files[instance.id].thumbnail
    ELSE LET se == splitext(instance.file)
         IN  se[1] \o S_thumbnail \o se[2]

\* ----------------------------------------------------------- media storage
\* The name with a random string put before its extension
get_alternative_name(name, suffix) ==
    LET se == splitext(name)
    IN  se[1] \o <<"_">> \o suffix \o se[2]

\* The names under which the storage may save a file requested as `name`
\* while the files in `taken` exist: the name itself when it is free
get_available_name(name, taken) ==
    IF name \notin taken THEN {name}
    ELSE {get_alternative_name(name, s) : s \in Suffixes} \ taken

\* The last operation: what it was applied to, whether it went through and how
\* many MediaFile rows it deleted
Result(op, arg, ok) == [op |-> op, arg |-> arg, ok |-> ok, deleted |-> 0]
Deleted(op, arg, n) == [op |-> op, arg |-> arg, ok |-> TRUE, deleted |-> n]

MediaInit ==
    /\ regions = {}
    /\ nextRegion = 1
    /\ directories = {}
    /\ nextDir = 1
    /\ files = <<>>
    /\ nextFile = 1
    /\ storage = {}
    /\ now = StartTime
    /\ ticks = 0
    /\ uploadLog = <<>>
    /\ firstFile = <<>>
    /\ firstThumb = <<>>
    /\ mediaResult = Result("init", NULL, TRUE)

\* f with key k set to v (k may be new)
Put(f, k, v) == [x \in DOMAIN f \cup {k} |-> IF x = k THEN v ELSE f[x]]
\* f with key k set to v unless k is set already
PutNew(f, k, v) == IF k \in DOMAIN f THEN f ELSE Put(f, k, v)
\* f without the keys in ks
Without(f, ks) == [x \in DOMAIN f \ ks |-> f[x]]

\* ------------------------------------------------------- media operations
\* A new MediaFile row as Model.save() inserts it: the file field is saved
\* first (upload_to = upload_path), then the thumbnail field (upload_to =
\* upload_path_thumbnail), which sees the name the file was stored under;
\* uploaded_date is auto_now_add.
UploadFile(r, d, t, fn, withThumb) ==
    /\ UNCHANGED notMedia
    /\ withThumb => t = T_image
    /\ LET req == upload_path(Instance(NULL, r, fn), fn)
       IN  \E stored \in get_available_name(req, storage) :
             LET reqT == upload_path_thumbnail(Instance(NULL, r, stored), fn)
                 namesT == IF withThumb
                           THEN get_available_name(reqT, storage \cup {stored})
                           ELSE {S_empty}
             IN  \E storedT \in namesT :
                   /\ files' = Put(files, nextFile,
                                   [file |-> stored, thumbnail |-> storedT,
                                    type |-> t, region |-> r,
                                    parent_directory |-> d,
                                    uploaded_date |-> now])
                   /\ storage' = (storage \cup {stored, storedT}) \ {S_empty}
                   /\ uploadLog' = Put(uploadLog, nextFile,
                                       [region |-> r, filename |-> fn,
                                        time |-> now, path |-> req])
                   /\ firstFile' = Put(firstFile, nextFile, stored)
                   /\ firstThumb' = IF withThumb
                                    THEN Put(firstThumb, nextFile, storedT)
                                    ELSE firstThumb
    /\ mediaResult' = Result("upload", nextFile, TRUE)
    /\ nextFile' = nextFile + 1
    /\ UNCHANGED <<regions, nextRegion, directories, nextDir, now, ticks>>

\* A MediaFile row saved without a file (both file fields empty)
CreateRecord(r, d, t) ==
    /\ UNCHANGED notMedia
    /\ files' = Put(files, nextFile,
                    [file |-> S_empty, thumbnail |-> S_empty, type |-> t,
                     region |-> r, parent_directory |-> d,
                     uploaded_date |-> now])
    /\ mediaResult' = Result("create", nextFile, TRUE)
    /\ nextFile' = nextFile + 1
    /\ UNCHANGED <<regions, nextRegion, directories, nextDir, storage, now,
                   ticks, uploadLog, firstFile, firstThumb>>

\* A new upload saved on an existing row: the physical files it replaces are
\* removed, then the row is saved as in UploadFile with instance.id set.
\* A thumbnail is saved when one exists already or (withThumb) one is generated.
ReplaceFile(id, fn, withThumb) ==
    /\ UNCHANGED notMedia
    /\ id \in DOMAIN files
    /\ withThumb => files[id].type = T_image
    /\ LET orig == files[id]
           newThumb == withThumb \/ orig.thumbnail # S_empty
           freed == {orig.file} \cup (IF newThumb THEN {orig.thumbnail} ELSE {})
           req == upload_path(Instance(id, orig.region, fn), fn)
       IN  \E stored \in get_available_name(req, storage \ freed) :
             LET reqT == upload_path_thumbnail(Instance(id, orig.region, stored), fn)
                 namesT == IF newThumb
                           THEN get_available_name(reqT, (storage \ freed) \cup {stored})
                           ELSE {orig.thumbnail}
             IN  \E storedT \in namesT :
                   /\ files' = [files EXCEPT ![id].file = stored,
                                             ![id].thumbnail = storedT]
                   /\ storage' = ((storage \ freed) \cup {stored, storedT}) \ {S_empty}
                   /\ uploadLog' = IF orig.file = S_empty
                                   THEN Put(uploadLog, id,
                                            [region |-> orig.region, filename |-> fn,
                                             time |-> now, path |-> req])
                                   ELSE uploadLog
                   /\ firstFile' = PutNew(firstFile, id, stored)
                   /\ firstThumb' = IF storedT # S_empty
                                    THEN PutNew(firstThumb, id, storedT)
                                    ELSE firstThumb
    /\ mediaResult' = Result("replace", id, TRUE)
    /\ UNCHANGED <<regions, nextRegion, directories, nextDir, nextFile, now, ticks>>

\* A row saved again with its region, directory or type edited and no new
\* upload: a FileField whose file is committed is not passed to upload_to.
EditFile(id, r, d) ==
    /\ UNCHANGED notMedia
    /\ id \in DOMAIN files
    /\ files' = [files EXCEPT ![id].region = r, ![id].parent_directory = d]
    /\ mediaResult' = Result("edit", id, TRUE)
    /\ UNCHANGED <<regions, nextRegion, directories, nextDir, nextFile, storage,
                   now, ticks, uploadLog, firstFile, firstThumb>>

\* MediaFile.delete(): the row goes, the physical files stay in the storage
DeleteFile(id) ==
    /\ UNCHANGED notMedia
    /\ id \in DOMAIN files
    /\ files' = Without(files, {id})
    /\ uploadLog' = Without(uploadLog, {id})
    /\ firstFile' = Without(firstFile, {id})
    /\ firstThumb' = Without(firstThumb, {id})
    /\ mediaResult' = Deleted("delete_file", id, 1)
    /\ UNCHANGED <<regions, nextRegion, directories, nextDir, nextFile, storage,
                   now, ticks>>

CreateRegion ==
    /\ UNCHANGED notMedia
    /\ regions' = regions \cup {nextRegion}
    /\ mediaResult' = Result("create_region", nextRegion, TRUE)
    /\ nextRegion' = nextRegion + 1
    /\ UNCHANGED <<directories, nextDir, files, nextFile, storage, now, ticks,
                   uploadLog, firstFile, firstThumb>>

\* The ids of the MediaFiles an on_delete rule of MediaFile reaches
FilesOfRegion(r) == {id \in DOMAIN files : files[id].region = r}
FilesInDirectory(d) == {id \in DOMAIN files : files[id].parent_directory = d}

\* Region.delete(): MediaFile.region is on_delete=CASCADE
DeleteRegion(r) ==
    /\ UNCHANGED notMedia
    /\ r \in regions
    /\ regions' = regions \ {r}
    /\ files' = Without(files, FilesOfRegion(r))
    /\ uploadLog' = Without(uploadLog, FilesOfRegion(r))
    /\ firstFile' = Without(firstFile, FilesOfRegion(r))
    /\ firstThumb' = Without(firstThumb, FilesOfRegion(r))
    /\ mediaResult' = Deleted("delete_region", r, Cardinality(FilesOfRegion(r)))
    /\ UNCHANGED <<nextRegion, directories, nextDir, nextFile, storage, now, ticks>>

CreateDirectory ==
    /\ UNCHANGED notMedia
    /\ directories' = directories \cup {nextDir}
    /\ mediaResult' = Result("create_directory", nextDir, TRUE)
    /\ nextDir' = nextDir + 1
    /\ UNCHANGED <<regions, nextRegion, files, nextFile, storage, now, ticks,
                   uploadLog, firstFile, firstThumb>>

\* PROTECT without its check: the directory is deleted whatever it contains
IsProtected_never(d) == FALSE

\* MediaFile.parent_directory is on_delete=PROTECT
IsProtected(d) == FilesInDirectory(d) # {}

\* Directory.delete(): refused with ProtectedError while files refer to it
DeleteDirectory(d) ==
    /\ UNCHANGED notMedia
    /\ d \in directories
    /\ IF IsProtected(d)
       THEN /\ mediaResult' = Result("delete_directory", d, FALSE)
            /\ UNCHANGED directories
       ELSE /\ mediaResult' = Result("delete_directory", d, TRUE)
            /\ directories' = directories \ {d}
    /\ UNCHANGED <<regions, nextRegion, nextDir, files, nextFile, storage, now,
                   ticks, uploadLog, firstFile, firstThumb>>

\* The clock moves on to the next month
Tick ==
    /\ UNCHANGED notMedia
    /\ ticks < MaxTicks
    /\ ticks' = ticks + 1
    /\ now' = IF now.month = 12
              THEN [year |-> now.year + 1, month |-> 1]
              ELSE [year |-> now.year, month |-> now.month + 1]
    /\ mediaResult' = Result("tick", NULL, TRUE)
    /\ UNCHANGED <<regions, nextRegion, directories, nextDir, files, nextFile,
                   storage, uploadLog, firstFile, firstThumb>>

RegionChoices == regions \cup {NULL}
DirectoryChoices == directories \cup {NULL}

\* The media library as far as upload paths go: uploads of every kind of
\* name, replacements, edits of the region, the clock
MediaNext ==
    \/ /\ nextFile <= MaxFiles
       /\ \E r \in RegionChoices, t \in Types, fn \in FileNames, withThumb \in BOOLEAN :
            UploadFile(r, NULL, t, fn, withThumb)
    \/ /\ nextFile <= MaxFiles
       /\ \E r \in RegionChoices, t \in Types : CreateRecord(r, NULL, t)
    \/ \E id \in DOMAIN files, fn \in FileNames, withThumb \in BOOLEAN :
            ReplaceFile(id, fn, withThumb)
    \/ \E id \in DOMAIN files, r \in RegionChoices : EditFile(id, r, NULL)
    \/ nextRegion <= MaxRegions /\ CreateRegion
    \/ Tick

\* The media library as far as its foreign keys go: regions, directories and
\* files come and go
MediaRefNext ==
    \/ /\ nextFile <= MaxRefFiles
       /\ \E r \in RegionChoices, d \in DirectoryChoices :
            UploadFile(r, d, T_pdf, N_B, FALSE)
    \/ \E id \in DOMAIN files, r \in RegionChoices, d \in DirectoryChoices :
            EditFile(id, r, d)
    \/ \E id \in DOMAIN files : DeleteFile(id)
    \/ nextRegion <= MaxRefRegions /\ CreateRegion
    \/ \E r \in regions : DeleteRegion(r)
    \/ nextDir <= MaxRefDirs /\ CreateDirectory
    \/ \E d \in directories : DeleteDirectory(d)

\* ---------------------------------------------------------- media URLs
\* settings.BASE_URL and the storage's base URL (MEDIA_URL)
BASE_URL == <<"h", "t", "t", "p", ":", "/", "/", "c", "m", "s">>
MEDIA_URL == <<"/", "m", "e", "d", "i", "a", "/">>
S_image == <<"i", "m", "a", "g", "e">>

\* A str or None
NoneStr == [some |-> FALSE, value |-> S_empty]
SomeStr(v) == [some |-> TRUE, value |-> v]

\* s.startswith(prefix)
startswith(s, prefix) ==
    Len(s) >= Len(prefix) /\ SubSeq(s, 1, Len(prefix)) = prefix

\* FieldFile.url of a file stored under `name`
file_url(name) == MEDIA_URL \o name

\* MediaFile.url of row f
url(f) == IF f.file # S_empty THEN SomeStr(BASE_URL \o file_url(f.file)) ELSE NoneStr

\* thumbnail_url falling back to the file whatever the type
thumbnail_url_any_type(f) ==
    IF f.thumbnail = S_empty THEN url(f)
    ELSE SomeStr(BASE_URL \o file_url(f.thumbnail))

\* MediaFile.thumbnail_url of row f
thumbnail_url(f) ==
    IF f.thumbnail = S_empty
    THEN IF startswith(f.type, S_image) THEN url(f) ELSE NoneStr
    ELSE SomeStr(BASE_URL \o file_url(f.thumbnail))

\* ------------------------------------------------------ media serialize
\* The modification times os.path.getmtime may report, in seconds
MTimes == {7, 12}

\* f"{x}" of a float with an integral value
FormatFloat(m) == Str(m) \o <<".", "0">>

\* os.path.getmtime(path) of the file stored under `name`, were its
\* modification time m: OSError when the physical file does not exist
getmtime(name, m) ==
    IF name \in storage THEN [ok |-> TRUE, mtime |-> m]
    ELSE [ok |-> FALSE, mtime |-> 0]

\* The dict serialize() returns for row f. The entries name, altText,
\* typeDisplay and uploadedDate are read from the row's fields like type and
\* are left out.
SerializedValue(id, f, thumbnailUrl) ==
    [id |-> id, type |-> f.type, thumbnailUrl |-> thumbnailUrl,
     url |-> url(f), isGlobal |-> f.region = NULL]

\* serialize() without its except clause: the OSError propagates
serialize_uncaught(id, f, stat) ==
    LET tu == thumbnail_url(f)
        noFile == tu.some /\ f.file = S_empty
        accessed == tu.some /\ ~noFile
    IN  [call |-> "serialize", id |-> id, row |-> f, stat |-> stat,
         accessed |-> accessed,
         logged |-> FALSE,
         raised |-> noFile \/ (accessed /\ ~stat.ok),
         value |-> SerializedValue(id, f,
                       IF accessed /\ stat.ok
                       THEN SomeStr(tu.value \o <<"?">> \o FormatFloat(stat.mtime))
                       ELSE tu)]

\* MediaFile.serialize() of row f, stat being what getmtime does when called.
\* self.file.path raises ValueError (not caught) when the row has no file;
\* an OSError of getmtime is caught and logged.
serialize(id, f, stat) ==
    LET tu == thumbnail_url(f)
        noFile == tu.some /\ f.file = S_empty
        accessed == tu.some /\ ~noFile
    IN  [call |-> "serialize", id |-> id, row |-> f, stat |-> stat,
         accessed |-> accessed,
         logged |-> accessed /\ ~stat.ok,
         raised |-> noFile,
         value |-> SerializedValue(id, f,
                       IF accessed /\ stat.ok
                       THEN SomeStr(tu.value \o <<"?">> \o FormatFloat(stat.mtime))
                       ELSE tu)]

SerializeInit ==
    serialized = [call |-> "init", id |-> NULL,
                  row |-> [file |-> S_empty, thumbnail |-> S_empty,
                           type |-> S_empty, region |-> NULL,
                           parent_directory |-> NULL,
                           uploaded_date |-> StartTime],
                  stat |-> [ok |-> FALSE, mtime |-> 0],
                  accessed |-> FALSE, logged |-> FALSE, raised |-> FALSE,
                  value |-> [id |-> NULL, type |-> S_empty,
                             thumbnailUrl |-> NoneStr, url |-> NoneStr,
                             isGlobal |-> TRUE]]

\* A MediaFile is a virtual document: its physical file may disappear from
\* the file system while the row stays
RemovePhysicalFile(name) ==
    /\ UNCHANGED notMedia
    /\ name \in storage
    /\ storage' = storage \ {name}
    /\ mediaResult' = Result("remove_physical_file", NULL, TRUE)
    /\ UNCHANGED <<regions, nextRegion, directories, nextDir, files, nextFile,
                   now, ticks, uploadLog, firstFile, firstThumb>>

\* A call of serialize() on a stored row
Serialize(id) ==
    /\ UNCHANGED notSerialize
    /\ id \in DOMAIN files
    /\ \E m \in MTimes :
         serialized' = serialize(id, files[id], getmtime(files[id].file, m))

\* The media library as the API serializes it: rows with and without files
\* and thumbnails, physical files that go missing
MediaSerializeNext ==
    \/ /\ nextFile <= MaxFiles
       /\ \E r \in RegionChoices, t \in Types, withThumb \in BOOLEAN :
            UploadFile(r, NULL, t, N_A_jpg, withThumb)
    \/ /\ nextFile <= MaxFiles
       /\ \E r \in RegionChoices, t \in Types : CreateRecord(r, NULL, t)
    \/ nextRegion <= MaxRegions /\ CreateRegion
    \/ \E name \in storage : RemovePhysicalFile(name)
    \/ \E id \in DOMAIN files : Serialize(id)

\* -------------------------------------------------------------- sites
MaxSites == 3

ACTIVE == "acti"
HIDDEN == "hidd"
ARCHIVED == "arch"
STATUS == {ACTIVE, HIDDEN, ARCHIVED}

\* What a form may submit as name and status
SiteNames == {"augsburg", "nurnberg"}
StatusInputs == STATUS \cup {"", "dele"}

SiteInit ==
    /\ sites = <<>>
    /\ nextSite = 1
    /\ siteResult = [id |-> NULL, name |-> "", status |-> "", ok |-> TRUE]

\* name without unique=True
name_is_unique_unchecked(id, name) == TRUE

\* name = URLField(unique=True): no other row has the name
name_is_unique(id, name) ==
    \A other \in DOMAIN sites : other # id => sites[other].name # name

\* status = CharField(choices=STATUS)
status_is_valid(status) == status \in STATUS

\* A Site stored through validation (id = NULL: a new row)
SaveSite(id, name, status) ==
    /\ UNCHANGED notSites
    /\ id \in DOMAIN sites \cup {NULL}
    /\ IF name_is_unique(id, name) /\ status_is_valid(status)
       THEN LET key == IF id = NULL THEN nextSite ELSE id
            IN  /\ sites' = Put(sites, key, [name |-> name, status |-> status])
                /\ nextSite' = IF id = NULL THEN nextSite + 1 ELSE nextSite
                /\ siteResult' = [id |-> key, name |-> name, status |-> status,
                                  ok |-> TRUE]
       ELSE /\ siteResult' = [id |-> id, name |-> name, status |-> status,
                              ok |-> FALSE]
            /\ UNCHANGED <<sites, nextSite>>

SiteNext ==
    \/ /\ nextSite <= MaxSites
       /\ \E name \in SiteNames, status \in StatusInputs : SaveSite(NULL, name, status)
    \/ \E id \in DOMAIN sites, name \in SiteNames, status \in StatusInputs :
            SaveSite(id, name, status)

\* ------------------------------------------- groups and migration 0005
MANAGEMENT == "MANAGEMENT"
GroupNames == {MANAGEMENT, "EDITOR"}
delete_imprintpage == "delete_imprintpage"
Permissions == {delete_imprintpage, "change_imprintpage", "view_imprintpage"}

MigInit ==
    /\ groups = [g \in GroupNames |-> {}]
    /\ applied = FALSE
    /\ beforeForward = [g \in GroupNames |-> {}]
    /\ migResult = <<"init", "init">>

\* add_roles granting the permission to every group
add_roles_to_all(gs) == [g \in DOMAIN gs |-> gs[g] \cup {delete_imprintpage}]

\* management_group.permissions.add(delete_imprint_permission)
add_roles(gs) ==
    [gs EXCEPT ![MANAGEMENT] = gs[MANAGEMENT] \cup {delete_imprintpage}]

\* management_group.permissions.remove(delete_imprint_permission)
remove_roles(gs) ==
    [gs EXCEPT ![MANAGEMENT] = gs[MANAGEMENT] \ {delete_imprintpage}]

Op(name) == <<migResult[2], name>>

\* migrate cms 0005: RunPython's code
MigrateForward ==
    /\ UNCHANGED notMigration
    /\ ~applied
    /\ beforeForward' = groups
    /\ groups' = add_roles(groups)
    /\ applied' = TRUE
    /\ migResult' = Op("forward")

\* migrate cms 0004: RunPython's reverse_code
MigrateBackward ==
    /\ UNCHANGED notMigration
    /\ applied
    /\ groups' = remove_roles(groups)
    /\ applied' = FALSE
    /\ migResult' = Op("backward")
    /\ UNCHANGED beforeForward

\* group.permissions.add(permission) outside the migration
GrantPermission(g, perm) ==
    /\ UNCHANGED notMigration
    /\ perm \notin groups[g]
    /\ groups' = [groups EXCEPT ![g] = groups[g] \cup {perm}]
    /\ migResult' = Op("grant")
    /\ UNCHANGED <<applied, beforeForward>>

\* group.permissions.remove(permission) outside the migration
RevokePermission(g, perm) ==
    /\ UNCHANGED notMigration
    /\ perm \in groups[g]
    /\ groups' = [groups EXCEPT ![g] = groups[g] \ {perm}]
    /\ migResult' = Op("revoke")
    /\ UNCHANGED <<applied, beforeForward>>

MigNext ==
    \/ MigrateForward
    \/ MigrateBackward
    \/ \E g \in GroupNames, perm \in Permissions : GrantPermission(g, perm)
    \/ \E g \in GroupNames, perm \in Permissions : RevokePermission(g, perm)

\* -------------------------------------------------------------- pages
MaxPages == 3

RegionSlugs == {"demo", "other"}
LanguageCodes == {"en-us", "de-de"}
FIRST_CHILD == "first-child"
LAST_CHILD == "last-child"
Positions == {FIRST_CHILD, LAST_CHILD}

PageInit ==
    /\ pages = <<>>
    /\ nextPage = 1
    /\ roots = [r \in RegionSlugs |-> <<>>]
    /\ children = <<>>
    /\ translations = <<>>
    /\ nextTranslation = 1
    /\ savedLangs = <<>>
    /\ pageResult = [op |-> "init", page |-> NULL, language |-> "", ok |-> TRUE]

RECURSIVE archived_inherited(_)
\* archived with the ancestors' state taken into account
archived_inherited(p) ==
    \/ pages[p].explicitly_archived
    \/ pages[p].parent # NULL /\ archived_inherited(pages[p].parent)

\* AbstractBasePage.archived
archived(p) == pages[p].explicitly_archived

\* The translation rows of page p in language code
TranslationsOf(trs, p, code) ==
    {t \in DOMAIN trs : trs[t].page = p /\ trs[t].language = code}

LanguagesIn(trs, p) == {trs[t].language : t \in {x \in DOMAIN trs : trs[x].page = p}}

\* page.languages
languages(p) == LanguagesIn(translations, p)

\* page.get_translation(code): the row's id, NULL for None
get_translation(p, code) ==
    IF TranslationsOf(translations, p, code) = {} THEN NULL
    ELSE CHOOSE t \in TranslationsOf(translations, p, code) : TRUE

\* A translation saved as a new row whether or not the language has one
save_translation_always_new(trs, p, code) ==
    Put(trs, nextTranslation, [page |-> p, language |-> code])

\* The translation of page p in language code as the form stores it: the row
\* of that language when there is one, a new row otherwise
save_translation(trs, p, code) ==
    IF TranslationsOf(trs, p, code) # {} THEN trs
    ELSE Put(trs, nextTranslation, [page |-> p, language |-> code])

\* A new sibling at the position the form names
InsertAt(siblings, id, position) ==
    IF position = FIRST_CHILD THEN <<id>> \o siblings ELSE Append(siblings, id)

RECURSIVE Preorder(_)
Preorder(list) ==
    IF list = <<>> THEN <<>>
    ELSE <<Head(list)>> \o Preorder(children[Head(list)]) \o Preorder(Tail(list))

\* get_tree returning the root pages only
get_tree_roots_only(region_slug) == roots[region_slug]

\* Page.get_tree(region_slug): the region's pages, parents before children
get_tree(region_slug) == Preorder(roots[region_slug])

\* PageForm.is_valid(): page and parent are pages of the region
PageFormIsValid(region_slug, page_id, parent) ==
    /\ page_id # NULL => page_id \in DOMAIN pages /\ pages[page_id].region = region_slug
    /\ parent # NULL => parent \in DOMAIN pages /\ pages[parent].region = region_slug

\* SetupClass.create_page: PageForm(...).save() when the form is valid
SavePageForm(region_slug, language_code, page_id, parent, position) ==
    /\ UNCHANGED notPages
    /\ IF ~PageFormIsValid(region_slug, page_id, parent)
       THEN /\ pageResult' = [op |-> "invalid", page |-> page_id,
                              language |-> "", ok |-> FALSE]
            /\ UNCHANGED <<pages, nextPage, roots, children, translations,
                           nextTranslation, savedLangs>>
       ELSE LET p == IF page_id = NULL THEN nextPage ELSE page_id
                trs == save_translation(translations, p, language_code)
            IN  /\ IF page_id = NULL
                   THEN /\ pages' = Put(pages, p, [region |-> region_slug,
                                                   parent |-> parent,
                                                   explicitly_archived |-> FALSE])
                        /\ nextPage' = nextPage + 1
                        /\ roots' = IF parent = NULL
                                    THEN [roots EXCEPT ![region_slug] =
                                              InsertAt(@, p, position)]
                                    ELSE roots
                        /\ children' = IF parent = NULL
                                       THEN Put(children, p, <<>>)
                                       ELSE Put([children EXCEPT ![parent] =
                                                    InsertAt(@, p, position)],
                                                p, <<>>)
                   ELSE UNCHANGED <<pages, nextPage, roots, children>>
                /\ translations' = trs
                /\ nextTranslation' = IF trs = translations THEN nextTranslation
                                      ELSE nextTranslation + 1
                /\ savedLangs' = Put(savedLangs, p,
                                     (IF p \in DOMAIN savedLangs THEN savedLangs[p] ELSE {})
                                         \cup {language_code})
                /\ pageResult' = [op |-> IF page_id = NULL THEN "create"
                                         ELSE IF language_code \in languages(p)
                                              THEN "update" ELSE "translate",
                                  page |-> p, language |-> language_code, ok |-> TRUE]

\* explicitly_archived set or cleared on a page
SetArchived(p, flag) ==
    /\ UNCHANGED notPages
    /\ p \in DOMAIN pages
    /\ pages[p].explicitly_archived # flag
    /\ pages' = [pages EXCEPT ![p].explicitly_archived = flag]
    /\ pageResult' = [op |-> IF flag THEN "archive" ELSE "restore", page |-> p,
                      language |-> "", ok |-> TRUE]
    /\ UNCHANGED <<nextPage, roots, children, translations, nextTranslation,
                   savedLangs>>

PageChoices == DOMAIN pages \cup {NULL}

\* Pages and their translations as the forms create them
PageNext ==
    \/ /\ nextPage <= MaxPages
       /\ \E region_slug \in RegionSlugs, language_code \in LanguageCodes,
             parent \in PageChoices, position \in Positions :
               SavePageForm(region_slug, language_code, NULL, parent, position)
    \/ \E region_slug \in RegionSlugs, language_code \in LanguageCodes,
          page_id \in DOMAIN pages, position \in Positions :
               SavePageForm(region_slug, language_code, page_id,
                            pages[page_id].parent, position)

\* Pages of one region in one language, archived and restored
PageArchiveNext ==
    \/ /\ nextPage <= MaxPages
       /\ \E parent \in PageChoices, position \in Positions :
               SavePageForm("demo", "en-us", NULL, parent, position)
    \/ \E p \in DOMAIN pages, flag \in BOOLEAN : SetArchived(p, flag)

\* ------------------------------------------------------ language tree
MaxNodes == 3

LanguageIds == {1, 2, 3}

LangInit ==
    /\ langNodes = <<>>
    /\ nextNode = 1
    /\ langResult = [id |-> NULL, region |-> "", parent |-> NULL, ok |-> TRUE]

NodesOf(region_slug) == {n \in DOMAIN langNodes : langNodes[n].region = region_slug}

\* The validation without the check for a second root
LanguageTreeNodeFormIsValid_any_root(region_slug, parent) ==
    parent # NULL => parent \in NodesOf(region_slug)

\* LanguageTreeNodeForm.is_valid(): the parent is a node of the region; a node
\* without parent is accepted only as the region's first node
LanguageTreeNodeFormIsValid(region_slug, parent) ==
    IF parent = NULL
    THEN \A n \in NodesOf(region_slug) : langNodes[n].parent # NULL
    ELSE parent \in NodesOf(region_slug)

\* SetupClass.create_language_tree_node
CreateLanguageTreeNode(region_slug, language, parent, active) ==
    /\ UNCHANGED notLanguages
    /\ IF LanguageTreeNodeFormIsValid(region_slug, parent)
       THEN /\ langNodes' = Put(langNodes, nextNode,
                                [language |-> language, parent |-> parent,
                                 region |-> region_slug, active |-> active])
            /\ nextNode' = nextNode + 1
            /\ langResult' = [id |-> nextNode, region |-> region_slug,
                              parent |-> parent, ok |-> TRUE]
       ELSE /\ langResult' = [id |-> NULL, region |-> region_slug,
                              parent |-> parent, ok |-> FALSE]
            /\ UNCHANGED <<langNodes, nextNode>>

\* Forms are submitted while the table may grow; a form that is turned down
\* adds nothing and may be submitted at any time
LangNext ==
    \E region_slug \in RegionSlugs, language \in LanguageIds,
       parent \in DOMAIN langNodes \cup {NULL}, active \in BOOLEAN :
         /\ nextNode <= MaxNodes \/ ~LanguageTreeNodeFormIsValid(region_slug, parent)
         /\ CreateLanguageTreeNode(region_slug, language, parent, active)

\* -------------------------------------------------------- specifications
Init == MediaInit /\ SiteInit /\ MigInit /\ PageInit /\ LangInit /\ SerializeInit

Spec == Init /\ [][MediaNext]_vars
SpecMediaRef == Init /\ [][MediaRefNext]_vars
SpecSites == Init /\ [][SiteNext]_vars
SpecMigration == Init /\ [][MigNext]_vars
SpecPages == Init /\ [][PageNext]_vars
SpecPageArchive == Init /\ [][PageArchiveNext]_vars
SpecLanguages == Init /\ [][LangNext]_vars
SpecSerialize == Init /\ [][MediaSerializeNext]_vars

\* ------------------------------------------------ reading a path back
S_sites_name == <<"s", "i", "t", "e", "s">>

RECURSIVE SplitPath(_)
\* p.split("/")
SplitPath(p) ==
    LET cut == {i \in 1..Len(p) : p[i] = "/"}
    IN  IF cut = {} THEN <<p>>
        ELSE LET i == CHOOSE k \in cut : \A j \in cut : k <= j
             IN  <<SubSeq(p, 1, i - 1)>> \o SplitPath(SubSeq(p, i + 1, Len(p)))

DigitValue(c) == CHOOSE d \in 0..9 : DigitChars[d + 1] = c
IsDigits(s) == Len(s) > 0 /\ \A i \in 1..Len(s) : \E d \in 0..9 : DigitChars[d + 1] = s[i]

RECURSIVE ParseInt(_)
\* int(s) of a string of digits
ParseInt(s) == IF Len(s) = 0 THEN 0
               ELSE 10 * ParseInt(SubSeq(s, 1, Len(s) - 1)) + DigitValue(s[Len(s)])

\* p reads as <YYYY>/<MM>/<filename> for time t
IsDatedPath(parts, t, filename) ==
    /\ Len(parts) = 3
    /\ Len(parts[1]) = 4 /\ IsDigits(parts[1]) /\ ParseInt(parts[1]) = t.year
    /\ Len(parts[2]) = 2 /\ IsDigits(parts[2]) /\ ParseInt(parts[2]) = t.month
    /\ parts[3] = filename

\* p reads as sites/<region id>/<YYYY>/<MM>/<filename>, or as
\* <YYYY>/<MM>/<filename> when the region is null
IsUploadPathOf(p, region, t, filename) ==
    LET parts == SplitPath(p)
    IN  IF region # NULL
        THEN /\ Len(parts) = 5
             /\ parts[1] = S_sites_name
             /\ IsDigits(parts[2]) /\ ParseInt(parts[2]) = region
             /\ IsDatedPath(SubSeq(parts, 3, 5), t, filename)
        ELSE IsDatedPath(parts, t, filename)

dirname(p) == SubSeq(p, 1, rfind(p, "/"))
extension(p) == splitext(p)[2]

\* t is f with "_thumbnail" inserted before f's extension
IsThumbnailNameOf(t, f) ==
    \E k \in 0..Len(f) :
        /\ t = SubSeq(f, 1, k) \o S_thumbnail \o SubSeq(f, k + 1, Len(f))
        /\ SubSeq(f, k + 1, Len(f)) = extension(f)

\* ---------------------------------------------------------------- claims

C2_UploadPathFormat ==
    /\ \A r \in RegionChoices, fn \in FileNames :
           IsUploadPathOf(upload_path(Instance(NULL, r, fn), fn), r, now, fn)
    /\ \A id \in DOMAIN files : files[id].file = S_empty =>
           \A r \in RegionChoices, fn \in FileNames :
               IsUploadPathOf(upload_path(Instance(id, r, fn), fn), r, now, fn)
    /\ \A id \in DOMAIN uploadLog :
           IsUploadPathOf(uploadLog[id].path, uploadLog[id].region,
                          uploadLog[id].time, uploadLog[id].filename)

\* A file went to a region's directory in January, for a row that had been
\* stored without a file, while another file went to the global directory.
C2_Witness ==
    \E id \in DOMAIN uploadLog, id2 \in DOMAIN uploadLog :
        /\ uploadLog[id].region # NULL
        /\ uploadLog[id].time.month = 1
        /\ mediaResult = Result("replace", id, TRUE)
        /\ uploadLog[id2].region = NULL

\* C3: without a stored thumbnail, upload_path_thumbnail returns the name of the
\* instance's file with "_thumbnail" before the extension, whatever filename it
\* is given: same directory, same extension, and different files get
\* different thumbnail paths.
C3_ThumbnailPath ==
    /\ \A id \in DOMAIN files : files[id].thumbnail = S_empty =>
           \A fn \in FileNames :
               LET f == files[id].file
                   t == upload_path_thumbnail(Instance(id, files[id].region, f), fn)
               IN  /\ IsThumbnailNameOf(t, f)
                   /\ dirname(t) = dirname(f)
                   /\ extension(t) = extension(f)
    /\ \A f1 \in storage, f2 \in storage :
           f1 # f2 =>
               upload_path_thumbnail(Instance(NULL, NULL, f1), N_A_jpg)
                   # upload_path_thumbnail(Instance(NULL, NULL, f2), N_dotfile)
    /\ \A id \in DOMAIN files : files[id].thumbnail # S_empty =>
           /\ dirname(files[id].thumbnail) = dirname(files[id].file)
           /\ extension(files[id].thumbnail) = extension(files[id].file)

\* Two files of different names are stored without a thumbnail, one of them
\* under a name the storage made unique, and one has an extension.
C3_Witness ==
    \E id \in DOMAIN files, id2 \in DOMAIN files :
        /\ files[id].thumbnail = S_empty /\ files[id2].thumbnail = S_empty
        /\ files[id].file # S_empty /\ files[id2].file # S_empty
        /\ files[id].file # files[id2].file
        /\ extension(files[id].file) # S_empty
        /\ uploadLog[id].path # files[id].file

\* C4: a page is archived exactly when it is explicitly archived: a newly
\* created page is not archived, and an archived ancestor changes nothing.
C4_ArchivedIsExplicit ==
    /\ \A p \in DOMAIN pages : archived(p) <=> pages[p].explicitly_archived = TRUE
    /\ pageResult.op = "create" => ~archived(pageResult.page)
    /\ pageResult.op = "archive" => archived(pageResult.page)
    /\ pageResult.op \in {"archive", "restore"} =>
           \A p \in DOMAIN pages :
               p # pageResult.page /\ ~pages[p].explicitly_archived => ~archived(p)

\* The parent of a page that is not explicitly archived was just archived.
C4_Witness ==
    /\ pageResult.op = "archive"
    /\ \E p \in DOMAIN pages :
           /\ pages[p].parent = pageResult.page
           /\ ~pages[p].explicitly_archived
           /\ ~archived(p)

\* The chain of parents of node n ends within `fuel` steps
RECURSIVE ReachesRoot(_, _)
ReachesRoot(n, fuel) ==
    \/ langNodes[n].parent = NULL
    \/ /\ fuel > 0
       /\ langNodes[n].parent \in DOMAIN langNodes
       /\ ReachesRoot(langNodes[n].parent, fuel - 1)

C6_OnePerLanguage ==
    /\ \A t1 \in DOMAIN translations, t2 \in DOMAIN translations :
           t1 # t2 => translations[t1].page # translations[t2].page
                      \/ translations[t1].language # translations[t2].language
    /\ \A p \in DOMAIN pages :
           /\ p \in DOMAIN savedLangs /\ languages(p) = savedLangs[p]
           /\ \A code \in LanguageCodes :
                  get_translation(p, code) = NULL <=> code \notin savedLangs[p]
           /\ Cardinality(languages(p)) =
                  Cardinality({t \in DOMAIN translations : translations[t].page = p})

C6_AddLanguage ==
    pageResult' # pageResult /\ pageResult'.op = "translate" =>
        /\ DOMAIN pages' = DOMAIN pages
        /\ pageResult'.language \notin languages(pageResult'.page)
        /\ \A p \in DOMAIN pages :
               LanguagesIn(translations', p) =
                   IF p = pageResult'.page
                   THEN languages(p) \cup {pageResult'.language}
                   ELSE languages(p)

\* C6: the state invariant and the step property of adding a language, together
C6_Translations == []C6_OnePerLanguage /\ [][C6_AddLanguage]_vars

\* A page got its second language, then the form was saved again in that
\* language, while another page has one translation.
C6_Witness ==
    /\ pageResult.op = "update"
    /\ Cardinality(languages(pageResult.page)) = 2
    /\ \E p \in DOMAIN pages : Cardinality(languages(p)) = 1

PagesOf(region_slug) == {p \in DOMAIN pages : pages[p].region = region_slug}

\* C7: get_tree returns every page created in the region exactly once, root
\* and child pages alike; translations do not count.
C7_GetTree ==
    \A r \in RegionSlugs :
        LET tree == get_tree(r)
        IN  /\ Len(tree) = Cardinality(PagesOf(r))
            /\ {tree[i] : i \in 1..Len(tree)} = PagesOf(r)
            /\ \A i \in 1..Len(tree), j \in 1..Len(tree) : i # j => tree[i] # tree[j]

\* A region has a root page with a first-child and a last-child page, one of
\* the pages has two translations, and a translation was just added.
C7_Witness ==
    /\ pageResult.op = "translate"
    /\ \E r \in RegionSlugs, p \in DOMAIN pages :
           /\ Len(get_tree(r)) = 3
           /\ Len(roots[r]) = 1
           /\ Len(children[p]) = 2
           /\ children[p][1] > children[p][2]
           /\ Cardinality(DOMAIN translations) > 3

\* C8: no two Sites have the same name, every status is 'acti', 'hidd' or
\* 'arch', and a Site whose name another Site uses is rejected and leaves the
\* stored Sites as they were.
C8_SiteInvariant ==
    /\ \A a \in DOMAIN sites, b \in DOMAIN sites :
           a # b => sites[a].name # sites[b].name
    /\ \A a \in DOMAIN sites : sites[a].status \in {"acti", "hidd", "arch"}

C8_Rejected ==
    siteResult' # siteResult =>
        /\ (\E other \in DOMAIN sites :
                other # siteResult'.id /\ sites[other].name = siteResult'.name)
               => ~siteResult'.ok
        /\ ~siteResult'.ok => sites' = sites
        /\ siteResult'.ok =>
               /\ siteResult'.id \in DOMAIN sites'
               /\ sites'[siteResult'.id].name = siteResult'.name
               /\ sites'[siteResult'.id].status = siteResult'.status

C9_RefIntegrity ==
    \A id \in DOMAIN files :
        /\ files[id].region \in regions \cup {NULL}
        /\ files[id].parent_directory \in directories \cup {NULL}

C9_Cascade ==
    mediaResult'.op = "delete_region" /\ mediaResult' # mediaResult =>
        LET r == mediaResult'.arg
        IN  /\ regions' = regions \ {r}
            /\ DOMAIN files' = {id \in DOMAIN files : files[id].region # r}
            /\ \A id \in DOMAIN files' : files'[id] = files[id]
            /\ mediaResult'.deleted = Cardinality(DOMAIN files) - Cardinality(DOMAIN files')
            /\ directories' = directories

C9_Protect ==
    mediaResult'.op = "delete_directory" /\ mediaResult' # mediaResult =>
        LET d == mediaResult'.arg
        IN  IF \E id \in DOMAIN files : files[id].parent_directory = d
            THEN /\ ~mediaResult'.ok
                 /\ directories' = directories /\ files' = files /\ regions' = regions
            ELSE /\ mediaResult'.ok
                 /\ directories' = directories \ {d} /\ files' = files

\* C9: referential integrity in every state, cascade and protect in every step
C9_ForeignKeys == []C9_RefIntegrity /\ [][C9_Cascade /\ C9_Protect]_vars

\* A Region was deleted and took a file with it, while a global file and a
\* file of another region are still there, one of them in a directory.
C9_Witness ==
    /\ mediaResult.op = "delete_region" /\ mediaResult.deleted >= 1
    /\ \E id \in DOMAIN files : files[id].region = NULL
    /\ \E id \in DOMAIN files : files[id].region \in regions
    /\ \E id \in DOMAIN files : files[id].parent_directory # NULL


OtherGroups == GroupNames \ {MANAGEMENT}

\* C10 as stated: forward and then backward returns MANAGEMENT's permissions
\* to what they were before the migration.
C10_RoundTripRestores ==
    migResult = <<"forward", "backward">> =>
        groups[MANAGEMENT] = beforeForward[MANAGEMENT]

\* C10, amended: add_roles makes MANAGEMENT hold delete_imprintpage and
\* remove_roles makes it not hold it; both are idempotent and leave every other
\* permission of MANAGEMENT and every other group alone; forward and then
\* backward returns MANAGEMENT's permissions to what they were before the
\* migration without delete_imprintpage, which is what they were exactly when
\* MANAGEMENT did not hold delete_imprintpage before.
C10_Migration ==
    /\ LET a == add_roles(groups)
           r == remove_roles(groups)
       IN  /\ delete_imprintpage \in a[MANAGEMENT]
           /\ delete_imprintpage \notin r[MANAGEMENT]
           /\ add_roles(a) = a
           /\ remove_roles(r) = r
           /\ a[MANAGEMENT] \ {delete_imprintpage} = groups[MANAGEMENT] \ {delete_imprintpage}
           /\ r[MANAGEMENT] \ {delete_imprintpage} = groups[MANAGEMENT] \ {delete_imprintpage}
           /\ DOMAIN a = GroupNames /\ DOMAIN r = GroupNames
           /\ \A g \in OtherGroups : a[g] = groups[g] /\ r[g] = groups[g]
    /\ migResult[2] = "forward" =>
           /\ delete_imprintpage \in groups[MANAGEMENT]
           /\ \A g \in OtherGroups : groups[g] = beforeForward[g]
    /\ migResult[2] = "backward" => delete_imprintpage \notin groups[MANAGEMENT]
    /\ migResult = <<"forward", "backward">> =>
           /\ groups[MANAGEMENT] = beforeForward[MANAGEMENT] \ {delete_imprintpage}
           /\ \A g \in OtherGroups : groups[g] = beforeForward[g]
           /\ delete_imprintpage \notin beforeForward[MANAGEMENT] =>
                  groups = beforeForward

\* The migration was applied and reverted while MANAGEMENT held another
\* permission and another group held delete_imprintpage.
C10_Witness ==
    /\ migResult = <<"forward", "backward">>
    /\ groups[MANAGEMENT] # {}
    /\ \E g \in OtherGroups : delete_imprintpage \in groups[g]
    /\ delete_imprintpage \notin beforeForward[MANAGEMENT]


\* C11: thumbnail_url is BASE_URL + thumbnail.url when a thumbnail exists;
\* without one it is the file's own url (None without a file) for a type that
\* starts with "image" and None for every other type; url is None exactly when
\* the file is empty.
C11_Urls ==
    \A id \in DOMAIN files :
        LET f == files[id]
            isImage == Len(f.type) >= 5 /\ SubSeq(f.type, 1, 5) = <<"i", "m", "a", "g", "e">>
        IN  /\ url(f) = NoneStr <=> f.file = S_empty
            /\ f.file # S_empty =>
                   url(f) = SomeStr(BASE_URL \o MEDIA_URL \o f.file)
            /\ f.thumbnail # S_empty =>
                   thumbnail_url(f) = SomeStr(BASE_URL \o MEDIA_URL \o f.thumbnail)
            /\ f.thumbnail = S_empty /\ isImage => thumbnail_url(f) = url(f)
            /\ f.thumbnail = S_empty /\ ~isImage => thumbnail_url(f) = NoneStr

\* One file has a thumbnail, another is a document with a file and without a
\* thumbnail.
C11_Witness ==
    \E id \in DOMAIN files, id2 \in DOMAIN files :
        /\ files[id].thumbnail # S_empty
        /\ thumbnail_url(files[id]).some
        /\ files[id2].type = T_pdf
        /\ files[id2].file # S_empty
        /\ url(files[id2]).some
        /\ ~thumbnail_url(files[id2]).some


\* C12: serialize never fails because the physical file is missing. With a
\* non-empty thumbnail_url it appends "?<mtime of the file>"; when getmtime
\* raises OSError the error is logged and thumbnailUrl is returned without the
\* suffix, the other entries as usual; with thumbnail_url None the file system
\* is not accessed and thumbnailUrl is None; isGlobal is true exactly when the
\* region is null.
C12_Serialize ==
    serialized.call = "serialize" =>
        LET f == serialized.row
            v == serialized.value
            tu == thumbnail_url(f)
        IN  /\ ~serialized.raised
            /\ tu.some /\ serialized.stat.ok =>
                   /\ v.thumbnailUrl =
                          SomeStr(tu.value \o <<"?">> \o Str(serialized.stat.mtime)
                                  \o <<".", "0">>)
                   /\ ~serialized.logged
            /\ tu.some /\ ~serialized.stat.ok =>
                   /\ v.thumbnailUrl = tu
                   /\ serialized.logged
            /\ ~tu.some =>
                   /\ ~serialized.accessed
                   /\ ~serialized.logged
                   /\ v.thumbnailUrl = NoneStr
            /\ v.id = serialized.id
            /\ v.type = f.type
            /\ v.url = url(f)
            /\ v.isGlobal <=> f.region = NULL

\* A row of a region whose thumbnail_url is set was serialized after its
\* physical file went missing.
C12_Witness ==
    /\ serialized.call = "serialize"
    /\ thumbnail_url(serialized.row).some
    /\ serialized.accessed
    /\ ~serialized.stat.ok
    /\ serialized.logged
    /\ serialized.row.region # NULL
    /\ ~serialized.value.isGlobal


\* p starts with sites/<region>/ when a region is given and does not start
\* with sites/ when it is null, and the two directories before the file name
\* read as the year and the month of t
PathIsOf(p, region, t) ==
    LET parts == SplitPath(p)
        n == Len(parts)
    IN  /\ region # NULL =>
               /\ n = 5
               /\ parts[1] = S_sites_name
               /\ IsDigits(parts[2]) /\ ParseInt(parts[2]) = region
        /\ region = NULL => n = 3 /\ parts[1] # S_sites_name
        /\ n >= 3
        /\ Len(parts[n - 2]) = 4 /\ IsDigits(parts[n - 2])
        /\ ParseInt(parts[n - 2]) = t.year
        /\ Len(parts[n - 1]) = 2 /\ IsDigits(parts[n - 1])
        /\ ParseInt(parts[n - 1]) = t.month

\* C13 as stated: the stored path of every MediaFile starts with
\* sites/<id of its region>/ exactly when the file is not global, and carries
\* the year and month of its uploaded_date.
C13_PathMatchesRow ==
    \A id \in DOMAIN files :
        files[id].file # S_empty =>
            PathIsOf(files[id].file, files[id].region, files[id].uploaded_date)

\* C13: the stored path of every MediaFile starts with sites/<id>/ exactly when
\* the file had a region when its path was first computed, <id> being that
\* region, and carries the year and month of that moment; these are its region
\* and its uploaded_date while the region was not edited and the file was
\* stored when the row was created.
C13_PathOfFirstUpload ==
    \A id \in DOMAIN files :
        files[id].file # S_empty =>
            /\ id \in DOMAIN uploadLog
            /\ PathIsOf(files[id].file, uploadLog[id].region, uploadLog[id].time)
            /\ (/\ uploadLog[id].region = files[id].region
                /\ uploadLog[id].time = files[id].uploaded_date)
               => PathIsOf(files[id].file, files[id].region, files[id].uploaded_date)

\* A file uploaded to a region was made global by an edit and is still stored
\* under the region's directory.
C13_Witness ==
    \E id \in DOMAIN files :
        /\ mediaResult = Result("edit", id, TRUE)
        /\ files[id].file # S_empty
        /\ files[id].region = NULL
        /\ id \in DOMAIN uploadLog
        /\ uploadLog[id].region # NULL
        /\ startswith(files[id].file, S_sites)

====
